---- MODULE Spec2Model ----
(***************************************************************************)
(* A model of the ray/geometry core of the Graphics repository:            *)
(*   aabb.h, hittable.h, hittable_list.h, sphere.h, bvh.h, material.h,     *)
(*   vec3.h and camera::ray_color of camera.h.                             *)
(*                                                                         *)
(* Numbers.  The code computes in IEEE doubles.  The model computes        *)
(* exactly, in the extended numbers                                        *)
(*      (p + b*sqrt(d)) / q,   +infinity,   -infinity,   NaN               *)
(* with p, b, d, q integers, d >= 0, q > 0.  That set is closed under the  *)
(* operations the code applies to the inputs drawn here (a sphere test     *)
(* takes one square root, of the discriminant; the materials are called    *)
(* with directions of integer length), so no rounding is introduced; the   *)
(* IEEE rules for division by zero, infinity and NaN are kept, because     *)
(* aabb::hit relies on them.                                               *)
(*                                                                         *)
(* Lengths are in units of 0.00005, so that the padding constant 0.0001 of *)
(* aabb::pad_to_minimums is the integer 2.  Ray parameters t are           *)
(* dimensionless.                                                          *)
(***************************************************************************)
EXTENDS Integers, Sequences, FiniteSets, TLC

VARIABLES
    hittables,   \* hittable_list::hittables: the sphere ids, in the order added
    list_bbox,   \* hittable_list::bbox
    bvh,         \* the bvh_node built from the list ("none" record before)
    pc,          \* position of the driver: "scene", "built", "queried", ...
    r,           \* the ray of the current query
    ray_t,       \* the query interval of the current query
    out,         \* the results of the current query
    call,        \* the last call of a constructor or of a scatter: inputs and result
    rc           \* camera::ray_color in progress: the frames of the recursion

vars == <<hittables, list_bbox, bvh, pc, r, ray_t, out, call, rc>>

\* the variables of the scene and of its queries
scene_vars == <<hittables, list_bbox, bvh, pc, r, ray_t, out>>

----------------------------------------------------------------------------
(* Extended numbers.  Every intermediate value is passed on as an operator *)
(* argument, the way the code keeps it in a local variable.                *)

Sgn(n) == IF n > 0 THEN 1 ELSE IF n < 0 THEN -1 ELSE 0

\* (p + b*sqrt(d)) / q, with q > 0
Fin(p, b, d, q) == [k |-> "fin", p |-> p, b |-> b, d |-> d, q |-> q]

\* the integer n
Num(n) == Fin(n, 0, 0, 1)

\* p / q for q > 0
Rat(p, q) == Fin(p, 0, 0, q)

PInf == [k |-> "pinf", p |-> 0, b |-> 0, d |-> 0, q |-> 1]

NInf == [k |-> "ninf", p |-> 0, b |-> 0, d |-> 0, q |-> 1]

NaN == [k |-> "nan", p |-> 0, b |-> 0, d |-> 0, q |-> 1]

\* the sign of A + B*sqrt(d)
SignSurd(A, B, d) ==
    IF B = 0 \/ d = 0 THEN Sgn(A)
    ELSE IF A = 0 \/ (A > 0) = (B > 0) THEN Sgn(B)
    ELSE IF A * A > B * B * d THEN Sgn(A)
    ELSE IF A * A < B * B * d THEN Sgn(B)
    ELSE 0

\* the sign of a + x, given the signs sa of a and sx of x and the sign sd of
\* a*a - x*x
SignSum(sa, sx, sd) ==
    IF sa = 0 \/ sa = sx THEN sx
    ELSE IF sx = 0 THEN sa
    ELSE IF sd > 0 THEN sa
    ELSE IF sd < 0 THEN sx
    ELSE 0

\* the sign of A + B*sqrt(d1) + C*sqrt(d2)
SignSurd2(A, B, d1, C, d2) ==
    IF B = 0 \/ d1 = 0 \/ C = 0 \/ d2 = 0 \/ d1 = d2
    THEN SignSurd(A,
                  IF B = 0 \/ d1 = 0 THEN C ELSE IF C = 0 \/ d2 = 0 THEN B ELSE B + C,
                  IF B = 0 \/ d1 = 0 THEN d2 ELSE d1)
    ELSE SignSum(Sgn(A),
                 Sgn(Sgn(B) * B * B * d1 + Sgn(C) * C * C * d2),
                 SignSurd(A * A - B * B * d1 - C * C * d2, -2 * B * C, d1 * d2))

\* how x compares with y, as IEEE compares doubles: -1 for x < y, 0 for x == y,
\* 1 for x > y, and 2 (unordered) as soon as one of them is NaN
Cmp(x, y) ==
    IF x.k = "nan" \/ y.k = "nan" THEN 2
    ELSE IF x.k # "fin" \/ y.k # "fin"
    THEN (IF x.k = y.k THEN 0
          ELSE IF x.k = "ninf" \/ y.k = "pinf" THEN -1
          ELSE 1)
    ELSE IF x.q = y.q THEN SignSurd2(x.p - y.p, x.b, x.d, -y.b, y.d)
    ELSE SignSurd2(x.p * y.q - y.p * x.q, x.b * y.q, x.d, -(y.b * x.q), y.d)

Lt(x, y) == Cmp(x, y) = -1

Le(x, y) == Cmp(x, y) \in {-1, 0}

Gt(x, y) == Cmp(x, y) = 1

EqN(x, y) == Cmp(x, y) = 0

\* the sign of x: -1, 0 or 1 (0 for NaN as well)
SignN(x) ==
    IF x.k = "pinf" THEN 1
    ELSE IF x.k = "ninf" THEN -1
    ELSE IF x.k = "nan" THEN 0
    ELSE SignSurd(x.p, x.b, x.d)

\* -x
NegN(x) == IF x.k = "pinf" THEN NInf
           ELSE IF x.k = "ninf" THEN PInf
           ELSE [x EXCEPT !.p = -x.p, !.b = -x.b]

\* x + y; two finite summands carry the same square root, or one carries none
AddN(x, y) ==
    IF x.k = "nan" \/ y.k = "nan" THEN NaN
    ELSE IF x.k = "fin" /\ y.k = "fin"
    THEN [k |-> "fin",
          p |-> IF x.q = y.q THEN x.p + y.p ELSE x.p * y.q + y.p * x.q,
          b |-> IF x.q = y.q THEN x.b + y.b ELSE x.b * y.q + y.b * x.q,
          d |-> IF x.b # 0 THEN x.d ELSE y.d,
          q |-> IF x.q = y.q THEN x.q ELSE x.q * y.q]
    ELSE IF x.k = "fin" THEN y
    ELSE IF y.k = "fin" \/ x.k = y.k THEN x
    ELSE NaN

\* x - y
SubN(x, y) == AddN(x, NegN(y))

\* n * x for an integer n
MulI(n, x) ==
    IF x.k = "nan" THEN NaN
    ELSE IF x.k = "fin" THEN [x EXCEPT !.p = n * x.p, !.b = n * x.b]
    ELSE IF n = 0 THEN NaN
    ELSE IF n > 0 THEN x
    ELSE NegN(x)

\* x / n for an integer n, as IEEE divides: x / 0 is an infinity of x's sign
\* and 0 / 0 is NaN (the code only divides by +0.0)
DivI(x, n) ==
    IF x.k = "nan" THEN NaN
    ELSE IF x.k = "fin" /\ n > 0 THEN [x EXCEPT !.q = x.q * n]
    ELSE IF x.k = "fin" /\ n < 0 THEN [x EXCEPT !.p = -x.p, !.b = -x.b, !.q = x.q * (-n)]
    ELSE IF x.k = "fin"
    THEN (IF SignSurd(x.p, x.b, x.d) > 0 THEN PInf
          ELSE IF SignSurd(x.p, x.b, x.d) < 0 THEN NInf
          ELSE NaN)
    ELSE IF n > 0 THEN x
    ELSE IF n < 0 THEN NegN(x)
    ELSE x

Abs(n) == IF n < 0 THEN -n ELSE n

RECURSIVE Gcd(_, _)
Gcd(m, n) == IF n = 0 THEN m ELSE Gcd(n, m % n)

\* x with numerator and denominator divided by their common divisor g
ReduceBy(x, g) ==
    [k |-> "fin", p |-> x.p \div g, b |-> x.b \div g,
     d |-> IF x.b = 0 THEN 0 ELSE x.d, q |-> x.q \div g]

\* x in lowest terms: the same number
Reduce(x) ==
    IF x.k # "fin" THEN x ELSE ReduceBy(x, Gcd(Gcd(Abs(x.p), Abs(x.b)), x.q))

\* x * y; of two finite factors with square roots, both carry the same one
MulN(x, y) ==
    IF x.k = "nan" \/ y.k = "nan" THEN NaN
    ELSE IF x.k = "fin" /\ y.k = "fin"
    THEN Reduce([k |-> "fin",
                 p |-> x.p * y.p + x.b * y.b * x.d,
                 b |-> x.p * y.b + x.b * y.p,
                 d |-> IF x.b # 0 THEN x.d ELSE y.d,
                 q |-> x.q * y.q])
    ELSE IF SignN(x) * SignN(y) > 0 THEN PInf
    ELSE IF SignN(x) * SignN(y) < 0 THEN NInf
    ELSE NaN

\* 1.0 / x for an x that is a fraction or a multiple of a square root
InvN(x) ==
    IF x.k = "nan" THEN NaN
    ELSE IF x.k # "fin" THEN Num(0)
    ELSE IF x.b # 0 /\ x.d # 0 THEN Reduce(Fin(0, Sgn(x.b) * x.q, x.d, Abs(x.b) * x.d))
    ELSE IF x.p = 0 THEN PInf
    ELSE Fin(Sgn(x.p) * x.q, 0, 0, Abs(x.p))

\* the integer square root of n >= 0
ISqrt(n) == CHOOSE k \in 0..n : k * k <= n /\ (k + 1) * (k + 1) > n

\* sqrt(n) / q, given the integer square root k of n
SqrtOver(n, q, k) == IF k * k = n THEN Reduce(Fin(k, 0, 0, q)) ELSE Fin(0, 1, n, q)

\* std::sqrt(x) for an x without square root: sqrt(p / q) = sqrt(p * q) / q
SqrtN(x) ==
    IF x.k = "nan" \/ x.k = "ninf" THEN NaN
    ELSE IF x.k = "pinf" THEN PInf
    ELSE IF x.p < 0 THEN NaN
    ELSE SqrtOver(x.p * x.q, x.q, ISqrt(x.p * x.q))

\* std::fmin(x, y): the other one if one is NaN
MinN(x, y) ==
    IF x.k = "nan" THEN y
    ELSE IF y.k = "nan" THEN x
    ELSE IF Lt(x, y) THEN x ELSE y

\* std::fabs(x)
AbsN(x) == IF SignN(x) < 0 THEN NegN(x) ELSE x

----------------------------------------------------------------------------
(* interval.h (not among the sources: modelled from its uses and from the  *)
(* data model's description of Interval)                                   *)

Interval(min, max) == [min |-> min, max |-> max]

\* interval::empty, also the default-constructed interval
IntervalEmpty == Interval(PInf, NInf)

IntervalUniverse == Interval(NInf, PInf)

\* interval(a, b): the interval tightly enclosing the two
IntervalMerge(a, b) ==
    Interval(IF Le(a.min, b.min) THEN a.min ELSE b.min,
             IF Le(b.max, a.max) THEN a.max ELSE b.max)

\* interval::size
IntervalSize(i) == SubN(i.max, i.min)

\* interval::surrounds: min < x && x < max
Surrounds(i, x) == Lt(i.min, x) /\ Lt(x, i.max)

\* interval::expand(delta): pads by delta / 2 on each side
Expand(i, delta) ==
    Interval(SubN(i.min, Rat(delta, 2)), AddN(i.max, Rat(delta, 2)))

----------------------------------------------------------------------------
(* aabb.h                                                                  *)

\* double delta = 0.0001, in units of 0.00005
PadDelta == 2

Box(x, y, z) == [x |-> x, y |-> y, z |-> z]

\* if (x.size() < delta) x = x.expand(delta);
PadX(box) ==
    IF Lt(IntervalSize(box.x), Num(PadDelta))
    THEN [box EXCEPT !.x = Expand(box.x, PadDelta)] ELSE box

\* if (y.size() < delta) x = y.expand(delta);
PadY(box) ==
    IF Lt(IntervalSize(box.y), Num(PadDelta))
    THEN [box EXCEPT !.x = Expand(box.y, PadDelta)] ELSE box

\* if (z.size() < delta) x = z.expand(delta);
PadZ(box) ==
    IF Lt(IntervalSize(box.z), Num(PadDelta))
    THEN [box EXCEPT !.x = Expand(box.z, PadDelta)] ELSE box

\* aabb::pad_to_minimums: the three statements in order
PadToMinimums(box) == PadZ(PadY(PadX(box)))

\* aabb(const interval&, const interval&, const interval&)
AabbOfIntervals(x, y, z) == PadToMinimums(Box(x, y, z))

\* the interval of axis i of aabb(a, b): the smaller coordinate first
OrderedInterval(a, b, i) ==
    IF a[i] <= b[i] THEN Interval(Num(a[i]), Num(b[i])) ELSE Interval(Num(b[i]), Num(a[i]))

\* aabb(const point3& a, const point3& b), a and b integer points
AabbOfPoints(a, b) ==
    PadToMinimums(Box(OrderedInterval(a, b, 1), OrderedInterval(a, b, 2),
                      OrderedInterval(a, b, 3)))

\* aabb(const aabb& box0, const aabb& box1) that keeps box0
AabbMerge_FirstOnly(box0, box1) == box0

\* aabb(const aabb& box0, const aabb& box1)
AabbMerge(box0, box1) ==
    [x |-> IntervalMerge(box0.x, box1.x),
     y |-> IntervalMerge(box0.y, box1.y),
     z |-> IntervalMerge(box0.z, box1.z)]

\* aabb(): the intervals are default-constructed
AabbDefault == Box(IntervalEmpty, IntervalEmpty, IntervalEmpty)

\* aabb::empty
AabbEmpty == AabbOfIntervals(IntervalEmpty, IntervalEmpty, IntervalEmpty)

\* aabb::axis_interval, for the axes 0, 1, 2
AxisInterval(box, n) == IF n = 1 THEN box.y ELSE IF n = 2 THEN box.z ELSE box.x

\* the narrowing of ray_t by the slab entered at t0 and left at t1 (or the
\* other way round)
SlabNarrow(rt, t0, t1) ==
    IF Lt(t0, t1)
    THEN Interval(IF Gt(t0, rt.min) THEN t0 ELSE rt.min,
                  IF Lt(t1, rt.max) THEN t1 ELSE rt.max)
    ELSE Interval(IF Gt(t1, rt.min) THEN t1 ELSE rt.min,
                  IF Lt(t0, rt.max) THEN t0 ELSE rt.max)

\* one round of the loop of aabb::hit: ray_t after the axis; adinv is 1.0 /
\* ray_dir[axis], so t0 and t1 are quotients by ray_dir[axis]
SlabStep(ax, orig, dir, rt) ==
    SlabNarrow(rt, DivI(SubN(ax.min, Num(orig)), dir), DivI(SubN(ax.max, Num(orig)), dir))

\* aabb::hit: the loop from one axis on, and its test of the narrowed interval
RECURSIVE AabbHitFrom(_, _, _, _)
RECURSIVE AabbHitTest(_, _, _, _)
AabbHitFrom(box, ray, rt, axis) ==
    IF axis = 3 THEN TRUE
    ELSE AabbHitTest(box, ray, axis,
                     SlabStep(AxisInterval(box, axis), ray.orig[axis + 1],
                              ray.dir[axis + 1], rt))

AabbHitTest(box, ray, axis, narrowed) ==
    IF Le(narrowed.max, narrowed.min) THEN FALSE
    ELSE AabbHitFrom(box, ray, narrowed, axis + 1)

\* aabb::hit
AabbHit(box, ray, rt) == AabbHitFrom(box, ray, rt, 0)

\* aabb::longest_axis, given the three sizes
LongestOf(sx, sy, sz) ==
    IF Gt(sx, sy) THEN (IF Gt(sx, sz) THEN 0 ELSE 2)
    ELSE (IF Gt(sy, sz) THEN 1 ELSE 2)

\* aabb::longest_axis
LongestAxis(box) ==
    LongestOf(IntervalSize(box.x), IntervalSize(box.y), IntervalSize(box.z))

----------------------------------------------------------------------------
(* ray.h (not among the sources), vec3.h, hittable.h                       *)

\* ray(origin, direction, time); the components are integers
Ray(orig, dir, tm) == [orig |-> orig, dir |-> dir, tm |-> tm]

\* dot of two integer vectors
DotI(u, v) == u[1] * v[1] + u[2] * v[2] + u[3] * v[3]

\* dot of an integer vector and a vector of numbers
DotN(u, v) == AddN(AddN(MulI(u[1], v[1]), MulI(u[2], v[2])), MulI(u[3], v[3]))

\* ray::at(t) for the rays of the queries: orig + t * dir
RayAt(ray, t) == [i \in 1..3 |-> AddN(Num(ray.orig[i]), MulI(ray.dir[i], t))]

\* a hit_record (u and v, which sphere::hit sets from acos and atan2 of the
\* normal, are left out)
HitRecord(p, normal, mat, t, front_face) ==
    [p |-> p, normal |-> normal, mat |-> mat, t |-> t, front_face |-> front_face]

\* hit_record::set_face_normal, given front_face
FaceNormal(rec, outward_normal, front_face) ==
    [rec EXCEPT !.front_face = front_face,
                !.normal = IF front_face THEN outward_normal
                           ELSE [i \in 1..3 |-> NegN(outward_normal[i])]]

\* hit_record::set_face_normal
SetFaceNormal(rec, ray, outward_normal) ==
    FaceNormal(rec, outward_normal, Lt(DotN(ray.dir, outward_normal), Num(0)))

----------------------------------------------------------------------------
(* sphere.h                                                                *)

Max(m, n) == IF m >= n THEN m ELSE n

\* sphere(static_center, radius, mat)
SphereStatic(static_center, radius, mat) ==
    [kind |-> "sphere", center |-> static_center, cdir |-> <<0, 0, 0>>,
     radius |-> Max(0, radius), mat |-> mat,
     bbox |-> AabbOfPoints([i \in 1..3 |-> static_center[i] - radius],
                           [i \in 1..3 |-> static_center[i] + radius])]

\* sphere(center1, center2, radius, mat)
SphereMoving(center1, center2, radius, mat) ==
    [kind |-> "sphere", center |-> center1,
     cdir |-> [i \in 1..3 |-> center2[i] - center1[i]],
     radius |-> Max(0, radius), mat |-> mat,
     bbox |-> AabbMerge(AabbOfPoints([i \in 1..3 |-> center1[i] - radius],
                                     [i \in 1..3 |-> center1[i] + radius]),
                        AabbOfPoints([i \in 1..3 |-> center2[i] - radius],
                                     [i \in 1..3 |-> center2[i] + radius]))]

\* center.at(r.time())
CurrentCenter(s, ray) == [i \in 1..3 |-> s.center[i] + ray.tm * s.cdir[i]]

\* the discriminant and the two candidate roots of sphere::hit, from a, h and
\* the discriminant: (h - sqrt(discriminant)) / a and (h + sqrt(discriminant)) / a
QuadraticRoots(a, h, discriminant) ==
    [discriminant |-> discriminant,
     root1 |-> IF discriminant < 0 THEN NaN ELSE DivI(Fin(h, -1, discriminant, 1), a),
     root2 |-> IF discriminant < 0 THEN NaN ELSE DivI(Fin(h, 1, discriminant, 1), a)]

\* a, h and c of sphere::hit, from oc = current_center - r.origin()
Quadratic(s, ray, oc) ==
    QuadraticRoots(DotI(ray.dir, ray.dir), DotI(ray.dir, oc),
                   DotI(ray.dir, oc) * DotI(ray.dir, oc)
                     - DotI(ray.dir, ray.dir) * (DotI(oc, oc) - s.radius * s.radius))

\* the discriminant and the candidate roots of sphere::hit for a ray
SphereRoots(s, ray) ==
    Quadratic(s, ray, [i \in 1..3 |-> CurrentCenter(s, ray)[i] - ray.orig[i]])

\* the end of sphere::hit: the record filled for the accepted root, p being
\* r.at(root)
SphereRecord(s, ray, rec, root, p) ==
    [hit |-> TRUE,
     rec |-> [SetFaceNormal([rec EXCEPT !.t = root, !.p = p], ray,
                            [i \in 1..3 |->
                                DivI(SubN(p[i], Num(CurrentCenter(s, ray)[i])), s.radius)])
              EXCEPT !.mat = s.mat]]

\* sphere::hit with the farther root accepted without the interval test
SphereHitRoots_FartherRootUntested(s, ray, rt, rec, q) ==
    IF q.discriminant < 0 THEN [hit |-> FALSE, rec |-> rec]
    ELSE IF Surrounds(rt, q.root1) THEN SphereRecord(s, ray, rec, q.root1, RayAt(ray, q.root1))
    ELSE SphereRecord(s, ray, rec, q.root2, RayAt(ray, q.root2))

\* sphere::hit with the farther root tested before the nearer one
SphereHitRoots_FartherRootFirst(s, ray, rt, rec, q) ==
    IF q.discriminant < 0 THEN [hit |-> FALSE, rec |-> rec]
    ELSE IF Surrounds(rt, q.root2) THEN SphereRecord(s, ray, rec, q.root2, RayAt(ray, q.root2))
    ELSE IF Surrounds(rt, q.root1) THEN SphereRecord(s, ray, rec, q.root1, RayAt(ray, q.root1))
    ELSE [hit |-> FALSE, rec |-> rec]

\* sphere::hit once the quadratic is solved: the nearer root if the interval
\* surrounds it, else the farther one if the interval surrounds that
SphereHitRoots(s, ray, rt, rec, q) ==
    IF q.discriminant < 0 THEN [hit |-> FALSE, rec |-> rec]
    ELSE IF Surrounds(rt, q.root1) THEN SphereRecord(s, ray, rec, q.root1, RayAt(ray, q.root1))
    ELSE IF Surrounds(rt, q.root2) THEN SphereRecord(s, ray, rec, q.root2, RayAt(ray, q.root2))
    ELSE [hit |-> FALSE, rec |-> rec]

\* sphere::hit: whether it hits, and the caller's record afterwards
SphereHit(s, ray, rt, rec) == SphereHitRoots(s, ray, rt, rec, SphereRoots(s, ray))

----------------------------------------------------------------------------
(* The primitives and the queries the model draws from                     *)

\* the most objects a list is given
MaxObjects == 3

\* the spheres of the scenes, by id; sphere i has material i
Spheres ==
    <<SphereStatic(<<0, 0, 0>>, 1, 1),
      SphereStatic(<<0, 2, 0>>, 0, 2),
      SphereStatic(<<2, 0, 0>>, 1, 3),
      SphereMoving(<<-2, -2, 0>>, <<-2, 2, 0>>, 1, 4),
      SphereStatic(<<0, 0, 3>>, -1, 5)>>

SphereIds == 1..Len(Spheres)

Origins == {<<-3, 0, 0>>, <<-3, -1, 0>>, <<1, -3, 0>>, <<0, 0, 0>>, <<-3, -1, -3>>}

Directions == {<<1, 0, 0>>, <<1, 1, 0>>, <<0, 1, 0>>, <<1, 1, 1>>, <<-1, 0, 0>>}

Times == {0, 1}

Rays == {Ray(o, d, tm) : o \in Origins, d \in Directions, tm \in Times}

\* the query intervals; (0.001, infinity) is the one of camera::ray_color
QueryIntervals ==
    {Interval(Rat(1, 1000), PInf), Interval(Num(0), Num(3)),
     Interval(Num(2), Num(5)), Interval(Num(-4), PInf)}

\* a record an earlier hit has filled, which a caller passes in again
CallerRec ==
    HitRecord(<<Num(3), Num(3), Num(3)>>, <<Num(0), Num(0), Num(1)>>, 1, Num(3), TRUE)

\* the record a caller passes in before any hit has filled it
NoRec == HitRecord(<<NaN, NaN, NaN>>, <<NaN, NaN, NaN>>, 0, NaN, FALSE)

----------------------------------------------------------------------------
(* hittable_list.h and bvh.h                                               *)

Leaf(id) == [kind |-> "sphere", id |-> id]

Node(bbox, left, right) == [kind |-> "bvh", bbox |-> bbox, left |-> left, right |-> right]

NoBvh == [kind |-> "none"]

\* hittable::bounding_box of a child
BoundingBox(obj) == IF obj.kind = "sphere" THEN Spheres[obj.id].bbox ELSE obj.bbox

\* the body of the loop with rec = temp_rec done for a member that misses too
ListStep_CopiesOnMiss(st, h) ==
    IF h.hit
    THEN [hit_anything |-> TRUE, closest_so_far |-> h.rec.t, rec |-> h.rec]
    ELSE [st EXCEPT !.rec = h.rec]

\* the body of the loop of hittable_list::hit: st holds hit_anything,
\* closest_so_far and rec, and h is what the member's hit returned
ListStep(st, h) ==
    IF h.hit
    THEN [hit_anything |-> TRUE, closest_so_far |-> h.rec.t, rec |-> h.rec]
    ELSE st

\* the loop of hittable_list::hit with every member tested against the whole
\* interval instead of (ray_t.min, closest_so_far)
RECURSIVE ListScan_WholeInterval(_, _, _, _, _)
ListScan_WholeInterval(ids, i, ray, rt, st) ==
    IF i > Len(ids) THEN st
    ELSE ListScan_WholeInterval(ids, i + 1, ray, rt,
             ListStep(st, SphereHit(Spheres[ids[i]], ray, rt, NoRec)))

\* the loop of hittable_list::hit from member i on
RECURSIVE ListScan(_, _, _, _, _)
ListScan(ids, i, ray, rt, st) ==
    IF i > Len(ids) THEN st
    ELSE ListScan(ids, i + 1, ray, rt,
             ListStep(st, SphereHit(Spheres[ids[i]], ray,
                                    Interval(rt.min, st.closest_so_far), NoRec)))

\* what hittable_list::hit returns and leaves in rec, from the state of its loop
ListResult(st) == [hit |-> st.hit_anything, rec |-> st.rec]

\* hittable_list::hit
ListHit(ids, ray, rt, rec) ==
    ListResult(ListScan(ids, 1, ray, rt,
                        [hit_anything |-> FALSE, closest_so_far |-> rt.max, rec |-> rec]))

\* hit_left || hit_right, with the record the right child leaves
BvhJoin(hl, hr) == [hit |-> hl.hit \/ hr.hit, rec |-> hr.rec]

\* bvh_node::hit and, given what the left child returned, its right half; a
\* child is a sphere or a bvh_node
RECURSIVE BvhHit(_, _, _, _)
RECURSIVE BvhHitRight(_, _, _, _)
BvhHit(node, ray, rt, rec) ==
    IF node.kind = "sphere" THEN SphereHit(Spheres[node.id], ray, rt, rec)
    ELSE IF ~AabbHit(node.bbox, ray, rt) THEN [hit |-> FALSE, rec |-> rec]
    ELSE BvhHitRight(node, ray, rt, BvhHit(node.left, ray, rt, rec))

BvhHitRight(node, ray, rt, hl) ==
    BvhJoin(hl, BvhHit(node.right, ray,
                       Interval(rt.min, IF hl.hit THEN hl.rec.t ELSE rt.max), hl.rec))

\* bvh_node::box_compare
BoxCompare(a, b, axis_index) ==
    Lt(AxisInterval(Spheres[a].bbox, axis_index).min,
       AxisInterval(Spheres[b].bbox, axis_index).min)

\* the box of a range taken from its last member alone
RangeBox_LastOnly(ids, n) == IF n = 0 THEN AabbEmpty ELSE Spheres[ids[n]].bbox

\* the box of a range: aabb::empty merged with each member's box in turn
RECURSIVE RangeBox(_, _)
RangeBox(ids, n) ==
    IF n = 0 THEN AabbEmpty ELSE AabbMerge(RangeBox(ids, n - 1), Spheres[ids[n]].bbox)

\* the permutations of 1..n
PermutationsOf(n) == {f \in [1..n -> 1..n] : \A i, j \in 1..n : i # j => f[i] # f[j]}

\* the orders std::sort may leave a range in: every permutation in which no
\* element is before one the comparator puts before it (std::sort is not stable)
SortedOrders(ids, axis) ==
    {[i \in 1..Len(ids) |-> ids[f[i]]] : f \in
        {g \in PermutationsOf(Len(ids)) : \A i, j \in 1..Len(ids) :
                               i < j => ~BoxCompare(ids[g[j]], ids[g[i]], axis)}}

\* bvh_node(hittables, start, end) over the range ids, and its body once the
\* box of the range is computed: the trees it may build
RECURSIVE BvhTrees(_)
RECURSIVE BvhSplit(_, _)
BvhTrees(ids) == BvhSplit(ids, RangeBox(ids, Len(ids)))

\* the constructor's body with the std::sort left out
BvhSplit_Unsorted(ids, bbox) ==
    IF Len(ids) = 1 THEN {Node(bbox, Leaf(ids[1]), Leaf(ids[1]))}
    ELSE IF Len(ids) = 2 THEN {Node(bbox, Leaf(ids[1]), Leaf(ids[2]))}
    ELSE {Node(bbox, lt, rt) :
             lt \in BvhTrees(SubSeq(ids, 1, Len(ids) \div 2)),
             rt \in BvhTrees(SubSeq(ids, Len(ids) \div 2 + 1, Len(ids)))}

BvhSplit(ids, bbox) ==
    IF Len(ids) = 1 THEN {Node(bbox, Leaf(ids[1]), Leaf(ids[1]))}
    ELSE IF Len(ids) = 2 THEN {Node(bbox, Leaf(ids[1]), Leaf(ids[2]))}
    ELSE UNION {{Node(bbox, lt, rt) :
                    lt \in BvhTrees(SubSeq(sorted, 1, Len(ids) \div 2)),
                    rt \in BvhTrees(SubSeq(sorted, Len(ids) \div 2 + 1, Len(ids)))} :
                sorted \in SortedOrders(ids, LongestAxis(bbox))}

----------------------------------------------------------------------------
(* The scene is built with add, the hierarchy is built from the list, and  *)
(* then one ray is sent through the list, the hierarchy and each member.   *)

NoRay == Ray(<<0, 0, 0>>, <<0, 0, 0>>, 0)

\* no constructor or scatter has been called
NoCall == [op |-> "none"]

\* no ray_color is in progress
NoRayColor == [pc |-> "idle"]

NoOut == [list |-> [hit |-> FALSE, rec |-> NoRec],
          bvh |-> [hit |-> FALSE, rec |-> NoRec],
          member |-> <<>>]

Init ==
    /\ hittables = <<>>
    /\ list_bbox = AabbDefault
    /\ bvh = NoBvh
    /\ pc = "scene"
    /\ r = NoRay
    /\ ray_t = IntervalEmpty
    /\ out = NoOut
    /\ call = NoCall
    /\ rc = NoRayColor

\* hittable_list::add
Add(id) ==
    /\ pc = "scene"
    /\ Len(hittables) < MaxObjects
    /\ \A i \in 1..Len(hittables) : hittables[i] # id
    /\ hittables' = Append(hittables, id)
    /\ list_bbox' = AabbMerge(list_bbox, Spheres[id].bbox)
    /\ UNCHANGED <<bvh, pc, r, ray_t, out, call, rc>>

\* bvh_node(hittable_list list): built from a copy of a non-empty list
Build ==
    /\ pc = "scene"
    /\ Len(hittables) >= 1
    /\ bvh' \in BvhTrees(hittables)
    /\ pc' = "built"
    /\ UNCHANGED <<hittables, list_bbox, r, ray_t, out, call, rc>>

\* hit of the list, of the hierarchy and of each member for one ray and interval
Query(ray, rt) ==
    /\ pc = "built"
    /\ r' = ray
    /\ ray_t' = rt
    /\ out' = [list |-> ListHit(hittables, ray, rt, CallerRec),
               bvh |-> BvhHit(bvh, ray, rt, CallerRec),
               member |-> [i \in 1..Len(hittables) |->
                              SphereHit(Spheres[hittables[i]], ray, rt, CallerRec)]]
    /\ pc' = "queried"
    /\ UNCHANGED <<hittables, list_bbox, bvh, call, rc>>

Next ==
    \/ \E id \in SphereIds : Add(id)
    \/ Build
    \/ \E ray \in Rays, rt \in QueryIntervals : Query(ray, rt)

Spec == Init /\ [][Next]_vars

----------------------------------------------------------------------------
(* Claims about the hit of spheres, lists and hierarchies                  *)

Members == 1..Len(hittables)

\* C1: for every list of spheres, ray and interval, bvh_node::hit of the
\* hierarchy built from the list returns what hittable_list::hit returns, and
\* on a hit both report the same t and the same primitive (material).
C1_BvhAgreesWithList ==
    pc = "queried" =>
        /\ out.bvh.hit = out.list.hit
        /\ out.list.hit => /\ EqN(out.bvh.rec.t, out.list.rec.t)
                           /\ out.bvh.rec.mat = out.list.rec.mat

\* C3: whenever hit returns true, for a sphere, a list or a hierarchy, the
\* reported t lies strictly inside the interval the caller supplied.
C3_HitInsideInterval ==
    pc = "queried" =>
        /\ out.list.hit => Surrounds(ray_t, out.list.rec.t)
        /\ out.bvh.hit => Surrounds(ray_t, out.bvh.rec.t)
        /\ \A i \in Members : out.member[i].hit => Surrounds(ray_t, out.member[i].rec.t)

\* C3's case: the list, the hierarchy and a member all report a hit for an
\* interval bounded on both sides, the member by its farther root because the
\* nearer one is not inside the interval.
C3_Witness ==
    /\ pc = "queried"
    /\ ray_t.max.k = "fin"
    /\ out.list.hit /\ out.bvh.hit
    /\ \E i \in Members :
          /\ out.member[i].hit
          /\ ~out.member[i].rec.front_face
          /\ ~Surrounds(ray_t, SphereRoots(Spheres[hittables[i]], r).root1)

\* C4: hittable_list::hit reports a hit exactly when some member is hit inside
\* the interval, and then its record is the record of a member whose t is the
\* least of all members' hits, whatever the order the members were added in.
C4_ListNearest ==
    pc = "queried" =>
        /\ out.list.hit = (\E i \in Members : out.member[i].hit)
        /\ out.list.hit =>
              /\ \E i \in Members : out.member[i].hit /\ out.member[i].rec = out.list.rec
              /\ \A j \in Members :
                    out.member[j].hit => Le(out.list.rec.t, out.member[j].rec.t)

\* C4's case: two members are hit, and the one added first is strictly nearer
\* than the one scanned after it.
C4_Witness ==
    /\ pc = "queried"
    /\ out.list.hit
    /\ \E i, j \in Members :
          /\ i < j
          /\ out.member[i].hit /\ out.member[j].hit
          /\ Lt(out.member[i].rec.t, out.member[j].rec.t)
          /\ out.list.rec = out.member[i].rec

----------------------------------------------------------------------------
(* Construction of bounding boxes on its own                               *)

\* the largest coordinate of the points and intervals a box is built from
MaxCoord == 2

Coords == 0..MaxCoord

Points == {<<x, y, z>> : x \in Coords, y \in Coords, z \in Coords}

\* the non-empty intervals with bounds among the coordinates
NonEmptyIntervals ==
    {i \in {Interval(Num(lo), Num(hi)) : lo \in Coords, hi \in Coords} : Le(i.min, i.max)}

InitAabb ==
    /\ hittables = <<>>
    /\ list_bbox = AabbDefault
    /\ bvh = NoBvh
    /\ pc = "aabb"
    /\ r = NoRay
    /\ ray_t = IntervalEmpty
    /\ out = NoOut
    /\ call = NoCall
    /\ rc = NoRayColor

\* aabb(const point3& a, const point3& b)
ConstructFromPoints(a, b) ==
    /\ call.op = "none"
    /\ call' = [op |-> "aabb_points", a |-> a, b |-> b, box |-> AabbOfPoints(a, b)]
    /\ UNCHANGED <<scene_vars, rc>>

\* aabb(const interval& x, const interval& y, const interval& z)
ConstructFromIntervals(x, y, z) ==
    /\ call.op = "none"
    /\ call' = [op |-> "aabb_intervals", x |-> x, y |-> y, z |-> z,
                box |-> AabbOfIntervals(x, y, z)]
    /\ UNCHANGED <<scene_vars, rc>>

\* the boxes merged: the boxes of the spheres, boxes of two points, and the
\* empty box
MergeOperands ==
    {Spheres[i].bbox : i \in SphereIds}
      \cup {AabbOfPoints(<<c, c, c>>, <<d, 0, d>>) : c \in Coords, d \in Coords}
      \cup {AabbEmpty}

\* aabb(const aabb& box0, const aabb& box1)
MergeBoxes(box0, box1) ==
    /\ call.op = "none"
    /\ call' = [op |-> "aabb_merge", box0 |-> box0, box1 |-> box1,
                box |-> AabbMerge(box0, box1)]
    /\ UNCHANGED <<scene_vars, rc>>

NextAabb ==
    \/ \E a \in Points, b \in Points : ConstructFromPoints(a, b)
    \/ \E box0 \in MergeOperands, box1 \in MergeOperands : MergeBoxes(box0, box1)
    \/ \E x \in NonEmptyIntervals, y \in NonEmptyIntervals, z \in NonEmptyIntervals :
          ConstructFromIntervals(x, y, z)

SpecAabb == InitAabb /\ [][NextAabb]_vars

\* C2: after an aabb is constructed from two points or from three non-empty
\* intervals, each of its three axis intervals has size at least 0.0001.
C2_EveryAxisPadded ==
    call.op \in {"aabb_points", "aabb_intervals"} =>
        \A axis \in 0..2 :
            Le(Num(PadDelta), IntervalSize(AxisInterval(call.box, axis)))

\* whether no axis of a box is empty (min <= max on each)
NonEmptyBox(box) == \A axis \in 0..2 : Le(AxisInterval(box, axis).min, AxisInterval(box, axis).max)

\* whether interval m is the envelope of the intervals a and b: it contains
\* both, and each of its bounds is a bound of one of them
IsEnvelope(m, a, b) ==
    /\ Le(m.min, a.min) /\ Le(m.min, b.min)
    /\ Le(a.max, m.max) /\ Le(b.max, m.max)
    /\ EqN(m.min, a.min) \/ EqN(m.min, b.min)
    /\ EqN(m.max, a.max) \/ EqN(m.max, b.max)

\* C11: the merge of two non-empty boxes contains both on every axis and is
\* the smallest such box; the merge of a box with the empty box is that box.
C11_MergeIsEnvelope ==
    call.op = "aabb_merge" =>
        /\ (NonEmptyBox(call.box0) /\ NonEmptyBox(call.box1)) =>
              \A axis \in 0..2 :
                  IsEnvelope(AxisInterval(call.box, axis), AxisInterval(call.box0, axis),
                             AxisInterval(call.box1, axis))
        /\ call.box1 = AabbEmpty => call.box = call.box0
        /\ call.box0 = AabbEmpty => call.box = call.box1

\* C11's case: two non-empty boxes neither of which contains the other have
\* been merged.
C11_Witness ==
    /\ call.op = "aabb_merge"
    /\ NonEmptyBox(call.box0) /\ NonEmptyBox(call.box1)
    /\ Lt(call.box0.x.min, call.box1.x.min)
    /\ Lt(call.box0.y.max, call.box1.y.max)
    /\ EqN(call.box.x.min, call.box0.x.min)
    /\ EqN(call.box.y.max, call.box1.y.max)

----------------------------------------------------------------------------
(* vec3.h on vectors of numbers.  Doubles (and the float of refract) are   *)
(* the numbers they stand for: no rounding.                                *)

\* the vector of an integer triple
NumVec(v) == [i \in 1..3 |-> Num(v[i])]

\* vec3::operator-()
VecNeg(v) == [i \in 1..3 |-> NegN(v[i])]

\* operator+(const vec3&, const vec3&)
VecAdd(u, v) == [i \in 1..3 |-> Reduce(AddN(u[i], v[i]))]

\* operator-(const vec3&, const vec3&)
VecSub(u, v) == [i \in 1..3 |-> Reduce(SubN(u[i], v[i]))]

\* operator*(double t, const vec3& v)
VecScale(t, v) == [i \in 1..3 |-> MulN(t, v[i])]

\* operator/(const vec3& v, double t): (1/t) * v
VecDiv(v, t) == VecScale(InvN(t), v)

\* dot
Dot(u, v) ==
    Reduce(AddN(Reduce(AddN(MulN(u[1], v[1]), MulN(u[2], v[2]))), MulN(u[3], v[3])))

\* vec3::length_squared
LengthSquared(v) == Dot(v, v)

\* vec3::length
Length(v) == SqrtN(LengthSquared(v))

\* unit_vector
UnitVector(v) == VecDiv(v, Length(v))

\* reflect: v - 2 * dot(v, n) * n
Reflect(v, n) == VecSub(v, VecScale(MulN(Num(2), Dot(v, n)), n))

\* the end of refract: r_out_perp + r_out_parallel
RefractSum(n, r_out_perp) ==
    VecAdd(r_out_perp,
           VecScale(NegN(SqrtN(AbsN(SubN(Num(1), LengthSquared(r_out_perp))))), n))

\* refract
Refract(uv, n, etai_over_etat) ==
    RefractSum(n, VecScale(etai_over_etat,
                           VecAdd(uv, VecScale(MinN(Dot(VecNeg(uv), n), Num(1)), n))))

\* whether two vectors are the same, component by component
VecEq(u, v) == \A i \in 1..3 : EqN(u[i], v[i])

----------------------------------------------------------------------------
(* material.h: dielectric and metal                                        *)

\* std::pow(x, 5)
Pow5(x) == MulN(x, MulN(x, MulN(x, MulN(x, x))))

\* the last two lines of dielectric::reflectance, r0 being (1 - ri) / (1 + ri)
Schlick(cosine, r0) ==
    Reduce(AddN(MulN(r0, r0),
                MulN(SubN(Num(1), MulN(r0, r0)), Pow5(SubN(Num(1), cosine)))))

\* dielectric::reflectance
Reflectance(cosine, refraction_index) ==
    Schlick(cosine, MulN(SubN(Num(1), refraction_index),
                         InvN(AddN(Num(1), refraction_index))))

\* double ri = rec.front_face ? (1.0 / refraction_index) : refraction_index
RefractionRatio(refraction_index, rec) ==
    IF rec.front_face THEN InvN(refraction_index) ELSE refraction_index

\* double cos_theta = std::fmin(dot(-unit_direction, rec.normal), 1.0)
CosTheta(r_in, rec) ==
    MinN(Dot(VecNeg(UnitVector(NumVec(r_in.dir))), rec.normal), Num(1))

\* double sin_theta = std::sqrt(1.0 - cos_theta * cos_theta)
SinTheta(cos_theta) == SqrtN(SubN(Num(1), MulN(cos_theta, cos_theta)))

\* the direction dielectric::scatter chooses
DielectricDirection(unit_direction, rec, ri, cos_theta, sin_theta, draw) ==
    IF Le(MulN(ri, sin_theta), Num(1)) \/ Gt(Reflectance(cos_theta, ri), draw)
    THEN Refract(unit_direction, rec.normal, ri)
    ELSE Reflect(unit_direction, rec.normal)

\* dielectric::scatter from cos_theta on
DielectricAngles(unit_direction, rec, ri, cos_theta, draw) ==
    DielectricDirection(unit_direction, rec, ri, cos_theta, SinTheta(cos_theta), draw)

\* dielectric::scatter that absorbs the ray on total internal reflection
DielectricScatter_AbsorbsTotalReflection(refraction_index, r_in, rec, draw) ==
    [ret |-> Le(MulN(RefractionRatio(refraction_index, rec), SinTheta(CosTheta(r_in, rec))),
                Num(1)),
     attenuation |-> NumVec(<<1, 1, 1>>),
     scattered |-> [orig |-> rec.p, dir |-> NumVec(r_in.dir), tm |-> r_in.tm]]

\* dielectric::scatter: what it returns and what it leaves in attenuation and
\* scattered; draw is what random_double() returns
DielectricScatter(refraction_index, r_in, rec, draw) ==
    [ret |-> TRUE,
     attenuation |-> NumVec(<<1, 1, 1>>),
     scattered |-> [orig |-> rec.p,
                    dir |-> DielectricAngles(UnitVector(NumVec(r_in.dir)), rec,
                                             RefractionRatio(refraction_index, rec),
                                             CosTheta(r_in, rec), draw),
                    tm |-> r_in.tm]]

\* the initialiser of metal::fuzz: fuzz < 1 ? fuzz : 1
MetalFuzz(fuzz) == IF Lt(fuzz, Num(1)) THEN fuzz ELSE Num(1)

\* metal(albedo, fuzz)
Metal(albedo, fuzz) == [kind |-> "metal", albedo |-> albedo, fuzz |-> MetalFuzz(fuzz)]

\* the end of metal::scatter, once scattered is set
MetalResult(m, rec, scattered) ==
    [ret |-> Gt(Dot(scattered.dir, rec.normal), Num(0)),
     attenuation |-> m.albedo,
     scattered |-> scattered]

\* metal::scatter; random_unit_vector is what random_unit_vector() returns
MetalScatter(m, r_in, rec, random_unit_vector) ==
    MetalResult(m, rec,
                [orig |-> rec.p,
                 dir |-> VecAdd(UnitVector(Reflect(NumVec(r_in.dir), rec.normal)),
                                VecScale(m.fuzz, random_unit_vector)),
                 tm |-> r_in.tm])

----------------------------------------------------------------------------
(* Calls of the materials on their own                                     *)

\* incoming directions, of integer length
IncomingDirections == {<<4, -3, 0>>, <<3, -4, 0>>, <<0, -2, 0>>, <<1, 0, 0>>, <<0, -3, -4>>}

\* the rays that reach the point (0, 0, 0) at t = 1
IncomingRays ==
    {Ray([i \in 1..3 |-> -d[i]], d, tm) : d \in IncomingDirections, tm \in Times}

SurfaceNormals == {<<0, 1, 0>>, <<0, 0, 1>>}

\* the records set_face_normal can leave for a ray: the normal is a unit vector
\* and never points along the ray
HitRecordsOf(r_in) ==
    {HitRecord(NumVec(<<0, 0, 0>>), NumVec(n), 0, Num(1), ff) :
        n \in {m \in SurfaceNormals : DotI(r_in.dir, m) <= 0}, ff \in BOOLEAN}

RefractionIndices == {Rat(3, 2), Num(2), Num(1)}

\* values of random_double(): in [0, 1)
Draws == {Num(0), Rat(1, 100), Rat(1, 2)}

\* values of random_unit_vector()
RandomUnitVectors ==
    {NumVec(<<1, 0, 0>>), NumVec(<<0, 1, 0>>), NumVec(<<0, -1, 0>>),
     <<Rat(3, 5), Rat(4, 5), Num(0)>>}

\* the fuzz arguments of the metal constructor
FuzzArguments == {Num(-1), Rat(-1, 2), Num(0), Rat(1, 2), Num(1), Num(2), NInf, PInf, NaN}

Albedos == {<<Rat(4, 5), Rat(3, 5), Rat(1, 5)>>}

InitMaterial ==
    /\ hittables = <<>>
    /\ list_bbox = AabbDefault
    /\ bvh = NoBvh
    /\ pc = "material"
    /\ r = NoRay
    /\ ray_t = IntervalEmpty
    /\ out = NoOut
    /\ call = NoCall
    /\ rc = NoRayColor

\* dielectric(refraction_index).scatter(r_in, rec, attenuation, scattered)
DielectricScatterCall(refraction_index, r_in, rec, draw) ==
    /\ call.op = "none"
    /\ call' = [op |-> "dielectric_scatter", refraction_index |-> refraction_index,
                r_in |-> r_in, rec |-> rec, draw |-> draw,
                result |-> DielectricScatter(refraction_index, r_in, rec, draw)]
    /\ UNCHANGED <<scene_vars, rc>>

\* metal(albedo, fuzz)
MetalConstruct(albedo, fuzz) ==
    /\ call.op = "none"
    /\ call' = [op |-> "metal", fuzz_argument |-> fuzz, mat |-> Metal(albedo, fuzz)]
    /\ UNCHANGED <<scene_vars, rc>>

\* scatter of the metal constructed
MetalScatterCall(r_in, rec, random_unit_vector) ==
    /\ call.op = "metal"
    /\ call' = [op |-> "metal_scatter", fuzz_argument |-> call.fuzz_argument,
                mat |-> call.mat, r_in |-> r_in, rec |-> rec,
                result |-> MetalScatter(call.mat, r_in, rec, random_unit_vector)]
    /\ UNCHANGED <<scene_vars, rc>>

NextMaterial ==
    \/ \E refraction_index \in RefractionIndices, r_in \in IncomingRays, draw \in Draws :
          \E rec \in HitRecordsOf(r_in) :
              DielectricScatterCall(refraction_index, r_in, rec, draw)
    \/ \E albedo \in Albedos, fuzz \in FuzzArguments : MetalConstruct(albedo, fuzz)
    \/ \E r_in \in IncomingRays, random_unit_vector \in RandomUnitVectors :
          \E rec \in HitRecordsOf(r_in) : MetalScatterCall(r_in, rec, random_unit_vector)

SpecMaterial == InitMaterial /\ [][NextMaterial]_vars

\* C7: when ratio * sin_theta > 1, the direction dielectric::scatter leaves in
\* scattered is the mirror reflection of the unit incoming direction, whatever
\* the random draw.
C7_TotalReflectionReflects ==
    (/\ call.op = "dielectric_scatter"
     /\ Gt(MulN(RefractionRatio(call.refraction_index, call.rec),
                SinTheta(CosTheta(call.r_in, call.rec))), Num(1)))
    => VecEq(call.result.scattered.dir,
             Reflect(UnitVector(NumVec(call.r_in.dir)), call.rec.normal))

\* C8: when ratio * sin_theta <= 1, dielectric::scatter reflects if the Schlick
\* reflectance exceeds the draw and refracts otherwise.
C8_SchlickChoosesReflection ==
    (/\ call.op = "dielectric_scatter"
     /\ Le(MulN(RefractionRatio(call.refraction_index, call.rec),
                SinTheta(CosTheta(call.r_in, call.rec))), Num(1)))
    => VecEq(call.result.scattered.dir,
             IF Gt(Reflectance(CosTheta(call.r_in, call.rec),
                               RefractionRatio(call.refraction_index, call.rec)),
                   call.draw)
             THEN Reflect(UnitVector(NumVec(call.r_in.dir)), call.rec.normal)
             ELSE Refract(UnitVector(NumVec(call.r_in.dir)), call.rec.normal,
                          RefractionRatio(call.refraction_index, call.rec)))

\* C9: dielectric::scatter returns true and leaves (1, 1, 1) in attenuation,
\* for every ray, record, refraction index and draw.
C9_DielectricNeverAbsorbs ==
    call.op = "dielectric_scatter" =>
        /\ call.result.ret = TRUE
        /\ VecEq(call.result.attenuation, NumVec(<<1, 1, 1>>))

\* C9's case: a scatter in total internal reflection whose direction is the
\* mirror reflection, from the inside of the surface.
C9_Witness ==
    /\ call.op = "dielectric_scatter"
    /\ ~call.rec.front_face
    /\ Gt(MulN(RefractionRatio(call.refraction_index, call.rec),
               SinTheta(CosTheta(call.r_in, call.rec))), Num(1))
    /\ VecEq(call.result.scattered.dir,
             Reflect(UnitVector(NumVec(call.r_in.dir)), call.rec.normal))
    /\ call.result.ret

\* C10: the fuzz a metal stores, and scatters with, lies in [0, 1] whatever
\* fuzz its constructor was given.
C10_FuzzInUnitRange ==
    call.op \in {"metal", "metal_scatter"} =>
        /\ Le(Num(0), call.mat.fuzz)
        /\ Le(call.mat.fuzz, Num(1))

----------------------------------------------------------------------------
(* camera.h: ray_color, one step at a time.  The stack holds one frame per *)
(* call in progress; path logs what each call did.                         *)

\* the most bounces a top-level call is given
MaxDepth == 2

\* the values of a uint16_t
Uint16 == 65536

Black == NumVec(<<0, 0, 0>>)

\* a color not computed yet
NoColor == <<NaN, NaN, NaN>>

\* the material of each sphere, by the sphere's mat
Materials ==
    <<[kind |-> "lambertian", albedo |-> <<Rat(1, 2), Rat(1, 2), Rat(1, 2)>>],
      Metal(<<Rat(4, 5), Rat(3, 5), Rat(1, 5)>>, Rat(1, 2)),
      [kind |-> "dielectric", refraction_index |-> Rat(3, 2)],
      [kind |-> "material"],
      [kind |-> "lambertian", albedo |-> <<Rat(1, 5), Num(1), Num(0)>>]>>

\* the rays a scatter may produce (their origin and direction come from the
\* hit point and from random draws); the time is that of the incoming ray
BounceRays ==
    {Ray(<<0, 0, 0>>, <<1, 0, 0>>, 0), Ray(<<-3, -1, 0>>, <<1, 1, 0>>, 0),
     Ray(<<-3, -1, 0>>, <<1, 0, 0>>, 0), Ray(<<1, -3, 0>>, <<-1, 0, 0>>, 0),
     Ray(<<-3, 0, 0>>, <<1, 0, 0>>, 1), Ray(<<-3, -1, -3>>, <<1, 1, 1>>, 1)}

\* what material::scatter and its overrides may return and leave in
\* attenuation and scattered: the base material absorbs, lambertian and
\* dielectric always scatter, metal scatters or not
ScatterOutcomes(mat, r_in) ==
    IF mat.kind = "material"
    THEN {[ret |-> FALSE, attenuation |-> NoColor, scattered |-> NoRay]}
    ELSE {[ret |-> ok,
           attenuation |-> IF mat.kind = "dielectric" THEN NumVec(<<1, 1, 1>>)
                           ELSE mat.albedo,
           scattered |-> s] :
             ok \in {b \in BOOLEAN : b \/ mat.kind = "metal"},
             s \in {x \in BounceRays : x.tm = r_in.tm}}

\* if (depth <= 0), on a uint16_t, with the test never true
DepthExhausted_Never(depth) == depth < 0

\* if (depth <= 0), on a uint16_t
DepthExhausted(depth) == depth <= 0

\* (1.0 - a) * color(1.0, 1.0, 1.0) + a * color(0.5, 0.7, 1.0)
Blend(a) ==
    VecAdd(VecScale(SubN(Num(1), a), NumVec(<<1, 1, 1>>)),
           VecScale(a, <<Rat(1, 2), Rat(7, 10), Num(1)>>))

\* the background of ray_color: a = 0.5 * (unit_direction.y() + 1.0)
Background(ray) ==
    Blend(MulN(Rat(1, 2), AddN(UnitVector(NumVec(ray.dir))[2], Num(1))))

\* attenuation + c instead of attenuation * c
Attenuate_Sum(attenuation, c) == VecAdd(attenuation, c)

\* operator*(const vec3&, const vec3&) of attenuation * ray_color(...)
Attenuate(attenuation, c) == [i \in 1..3 |-> MulN(attenuation[i], c[i])]

\* the frame of a call ray_color(ray, depth, world)
Frame(ray, depth) == [r |-> ray, depth |-> depth, rec |-> NoRec, attenuation |-> NoColor]

\* the world of a rendering
ColorScenes == {<<>>, <<1, 3>>, <<4, 2, 1>>}

\* the box hittable_list::add leaves after adding the first n of ids
RECURSIVE ListBox(_, _)
ListBox(ids, n) ==
    IF n = 0 THEN AabbDefault ELSE AabbMerge(ListBox(ids, n - 1), Spheres[ids[n]].bbox)

\* the rays ray_color is called with
CameraRays ==
    {Ray(<<-3, 0, 0>>, <<1, 0, 0>>, 0), Ray(<<-3, 0, 0>>, <<-1, 0, 0>>, 0),
     Ray(<<-3, -1, 0>>, <<1, 0, 0>>, 0), Ray(<<-3, -1, 0>>, <<1, 1, 0>>, 1),
     Ray(<<1, -3, 0>>, <<0, 1, 0>>, 0), Ray(<<0, 0, 0>>, <<1, 1, 1>>, 1)}

InitColor ==
    /\ hittables \in ColorScenes
    /\ list_bbox = ListBox(hittables, Len(hittables))
    /\ bvh = NoBvh
    /\ pc = "color"
    /\ r = NoRay
    /\ ray_t = IntervalEmpty
    /\ out = NoOut
    /\ call = NoCall
    /\ rc = NoRayColor

\* the top of the stack
Top == rc.stack[Len(rc.stack)]

\* the entry of path for the call on top of the stack
Level(outcome, attenuation, scattered) ==
    [r |-> Top.r, depth |-> Top.depth, outcome |-> outcome,
     attenuation |-> attenuation, scattered |-> scattered]

\* a call ray_color(ray, depth, world) from outside
RayColorCall(ray, depth) ==
    /\ pc = "color"
    /\ rc.pc = "idle"
    /\ rc' = [pc |-> "depth_test", ray |-> ray, depth |-> depth,
              stack |-> <<Frame(ray, depth)>>, ret |-> NoColor, queries |-> 0,
              path |-> <<>>]
    /\ UNCHANGED <<scene_vars, call>>

\* if (depth <= 0) return color(0, 0, 0);
DepthTest ==
    /\ rc.pc = "depth_test"
    /\ rc' = IF DepthExhausted(Top.depth)
             THEN [rc EXCEPT !.pc = "return", !.ret = Black,
                             !.path = Append(@, Level("exhausted", NoColor, NoRay))]
             ELSE [rc EXCEPT !.pc = "world_hit"]
    /\ UNCHANGED <<scene_vars, call>>

\* the rest of WorldHit, h being what world.hit returned
AfterWorldHit(h) ==
    IF h.hit
    THEN [rc EXCEPT !.pc = "scatter", !.queries = @ + 1,
                    !.stack[Len(rc.stack)].rec = h.rec]
    ELSE [rc EXCEPT !.pc = "return", !.queries = @ + 1, !.ret = Background(Top.r),
                    !.path = Append(@, Level("background", NoColor, NoRay))]

\* world.hit(r, interval(0.001, infinity), rec), and the background if it misses
WorldHit ==
    /\ rc.pc = "world_hit"
    /\ rc' = AfterWorldHit(ListHit(hittables, Top.r, Interval(Rat(1, 1000), PInf), NoRec))
    /\ UNCHANGED <<scene_vars, call>>

\* the recursive call made with depth instead of depth - 1
ScatterAndRecurse_DepthKept ==
    /\ rc.pc = "scatter"
    /\ \E o \in ScatterOutcomes(Materials[Top.rec.mat], Top.r) :
          /\ o.ret
          /\ rc' = [rc EXCEPT
                      !.pc = "depth_test",
                      !.stack = Append([@ EXCEPT ![Len(@)].attenuation = o.attenuation],
                                       Frame(o.scattered, Top.depth % Uint16)),
                      !.path = Append(@, Level("scattered", o.attenuation, o.scattered))]
    /\ UNCHANGED <<scene_vars, call>>

\* rec.mat->scatter(r, rec, attenuation, scattered) returns true, and the call
\* ray_color(scattered, depth - 1, world) starts
ScatterAndRecurse ==
    /\ rc.pc = "scatter"
    /\ \E o \in ScatterOutcomes(Materials[Top.rec.mat], Top.r) :
          /\ o.ret
          /\ rc' = [rc EXCEPT
                      !.pc = "depth_test",
                      !.stack = Append([@ EXCEPT ![Len(@)].attenuation = o.attenuation],
                                       Frame(o.scattered, (Top.depth - 1) % Uint16)),
                      !.path = Append(@, Level("scattered", o.attenuation, o.scattered))]
    /\ UNCHANGED <<scene_vars, call>>

\* rec.mat->scatter(r, rec, attenuation, scattered) returns false:
\* return color(0, 0, 0)
ScatterAbsorbs ==
    /\ rc.pc = "scatter"
    /\ \E o \in ScatterOutcomes(Materials[Top.rec.mat], Top.r) : ~o.ret
    /\ rc' = [rc EXCEPT !.pc = "return", !.ret = Black,
                        !.path = Append(@, Level("absorbed", NoColor, NoRay))]
    /\ UNCHANGED <<scene_vars, call>>

\* a return into the call below: return attenuation * ray_color(...), which
\* returns in turn
ReturnToCaller ==
    /\ rc.pc = "return"
    /\ Len(rc.stack) > 1
    /\ rc' = [rc EXCEPT !.stack = SubSeq(@, 1, Len(@) - 1),
                        !.ret = Attenuate(rc.stack[Len(rc.stack) - 1].attenuation, @)]
    /\ UNCHANGED <<scene_vars, call>>

\* the return of the outermost call
ReturnToCamera ==
    /\ rc.pc = "return"
    /\ Len(rc.stack) = 1
    /\ rc' = [rc EXCEPT !.pc = "done", !.stack = <<>>]
    /\ UNCHANGED <<scene_vars, call>>

NextColor ==
    \/ \E ray \in CameraRays, depth \in 0..MaxDepth : RayColorCall(ray, depth)
    \/ DepthTest
    \/ WorldHit
    \/ ScatterAndRecurse
    \/ ScatterAbsorbs
    \/ ReturnToCaller
    \/ ReturnToCamera

SpecColor == InitColor /\ [][NextColor]_vars

\* the color a logged path stands for: the product of the attenuations of its
\* scattered levels, acc so far, times the color of the level that ends it
RECURSIVE PathColor(_, _, _)
PathColor(path, i, acc) ==
    IF i > Len(path) THEN NoColor
    ELSE IF path[i].outcome = "scattered"
    THEN PathColor(path, i + 1, [k \in 1..3 |-> MulN(acc[k], path[i].attenuation[k])])
    ELSE IF path[i].outcome = "background"
    THEN [k \in 1..3 |-> MulN(acc[k], Background(path[i].r)[k])]
    ELSE [k \in 1..3 |-> MulN(acc[k], Black[k])]

\* C5: ray_color called with depth 0 returns (0, 0, 0) whatever the ray and the
\* scene, and makes no intersection query on the way.
C5_DepthZeroIsBlack ==
    (rc.pc # "idle" /\ rc.depth = 0) =>
        /\ rc.queries = 0
        /\ rc.pc \in {"depth_test", "return", "done"}
        /\ rc.pc = "done" => VecEq(rc.ret, Black)

\* C5's case: a call with depth 0 has returned for a ray that hits the scene.
C5_Witness ==
    /\ rc.pc = "done"
    /\ rc.depth = 0
    /\ ListHit(hittables, rc.ray, Interval(Rat(1, 1000), PInf), NoRec).hit

\* C6: a call with depth >= 1 ends each level in one of three ways: the ray
\* hits nothing and the background is returned without recursing, scatter is
\* false and black is returned without recursing, or scatter is true and the
\* level recurses on scattered with depth - 1; one intersection query is made
\* per level, and the value returned at the top is the product of the
\* attenuations along the path times the background or black.
C6_ProductAlongPath ==
    (rc.pc = "done" /\ rc.depth >= 1) =>
        /\ Len(rc.path) >= 1
        /\ \A i \in 1..Len(rc.path) :
              /\ rc.path[i].depth >= 1 =>
                    rc.path[i].outcome \in {"background", "absorbed", "scattered"}
              /\ (rc.path[i].outcome = "scattered") = (i < Len(rc.path))
              /\ i < Len(rc.path) =>
                    /\ rc.path[i + 1].r = rc.path[i].scattered
                    /\ rc.path[i + 1].depth = rc.path[i].depth - 1
        /\ rc.queries = Cardinality({i \in 1..Len(rc.path) : rc.path[i].depth >= 1})
        /\ VecEq(rc.ret, PathColor(rc.path, 1, NumVec(<<1, 1, 1>>)))

\* C6's case: a call has returned the background of the scattered ray,
\* attenuated by a material that is not white.
C6_Witness ==
    /\ rc.pc = "done"
    /\ Len(rc.path) = 2
    /\ rc.path[1].outcome = "scattered"
    /\ rc.path[2].outcome = "background"
    /\ ~VecEq(rc.path[1].attenuation, NumVec(<<1, 1, 1>>))
    /\ ~VecEq(rc.ret, Background(rc.path[2].r))

----------------------------------------------------------------------------
(* camera.h: render and its worker threads.  The state of a rendering is   *)
(* kept in call.  One draw per pixel stands for the draws of get_ray and   *)
(* of ray_color (samples_per_pixel is 1).                                  *)

\* the largest image_width
MaxWidth == 2

\* the largest value of std::thread::hardware_concurrency()
MaxThreads == 3

\* the number of states of the generator behind std::rand()
RandModulus == 3

\* values of aspect_ratio, as fractions n / d
AspectRatios == {[n |-> 1, d |-> 1], [n |-> 2, d |-> 3]}

\* image_height = (image_height < 1) ? 1 : image_height
AtLeastOne(image_height) == IF image_height < 1 THEN 1 ELSE image_height

\* camera::initialize: image_height = int(image_width / aspect_ratio), at least 1
ImageHeight(image_width, aspect_ratio) ==
    AtLeastOne((image_width * aspect_ratio.d) \div aspect_ratio.n)

\* int rows_per_thread = std::max(1, image_height / num_threads)
RowsPerThread(image_height, num_threads) == Max(1, image_height \div num_threads)

\* int start_y = t * rows_per_thread
StartY(t, rows_per_thread) == t * rows_per_thread

\* int end_y = (t == num_threads - 1) ? image_height : (t + 1) * rows_per_thread
EndY(t, num_threads, image_height, rows_per_thread) ==
    IF t = num_threads - 1 THEN image_height ELSE (t + 1) * rows_per_thread

\* the thread render starts for the rows [start_y, end_y): the loops of
\* render_section are at row j and column i
Worker(start_y, end_y) ==
    [start_y |-> start_y, end_y |-> end_y, j |-> start_y, i |-> 0, seed |-> 0,
     pc |-> IF start_y < end_y THEN "rand_read" ELSE "done"]

\* the loops of render_section after a pixel is stored
NextPixel(w, image_width) ==
    IF w.i + 1 < image_width THEN [w EXCEPT !.i = @ + 1, !.pc = "rand_read"]
    ELSE IF w.j + 1 < w.end_y THEN [w EXCEPT !.j = @ + 1, !.i = 0, !.pc = "rand_read"]
    ELSE [w EXCEPT !.pc = "done"]

InitRender ==
    /\ hittables = <<>>
    /\ list_bbox = AabbDefault
    /\ bvh = NoBvh
    /\ pc = "render"
    /\ r = NoRay
    /\ ray_t = IntervalEmpty
    /\ out = NoOut
    /\ call = NoCall
    /\ rc = NoRayColor

\* camera::render up to the loop that starts the threads
RenderCall(image_width, aspect_ratio, num_threads) ==
    /\ pc = "render"
    /\ call.op = "none"
    /\ call' = [op |-> "dispatching",
                image_width |-> image_width,
                image_height |-> ImageHeight(image_width, aspect_ratio),
                num_threads |-> num_threads,
                rows_per_thread |->
                    RowsPerThread(ImageHeight(image_width, aspect_ratio), num_threads),
                workers |-> <<>>,
                writers |-> [k \in 0..(image_width * ImageHeight(image_width, aspect_ratio) - 1)
                               |-> {}],
                outside |-> {},
                rand_state |-> 0,
                rand_users |-> {}]
    /\ UNCHANGED <<scene_vars, rc>>

\* one round of the loop that starts the threads: thread t = Len(workers)
Dispatch ==
    /\ call.op = "dispatching"
    /\ Len(call.workers) < call.num_threads
    /\ call' = [call EXCEPT !.workers =
                   Append(@, Worker(StartY(Len(@), call.rows_per_thread),
                                    EndY(Len(@), call.num_threads, call.image_height,
                                         call.rows_per_thread)))]
    /\ UNCHANGED <<scene_vars, rc>>

\* std::rand() in random_double(), first half: the thread reads the state of
\* the generator
RandRead(w) ==
    /\ call.op = "dispatching"
    /\ w \in 1..Len(call.workers)
    /\ call.workers[w].pc = "rand_read"
    /\ call' = [call EXCEPT !.workers[w].seed = call.rand_state,
                            !.workers[w].pc = "rand_write",
                            !.rand_users = @ \cup {w}]
    /\ UNCHANGED <<scene_vars, rc>>

\* std::rand() in random_double(), second half: the thread writes the next
\* state of the generator
RandWrite(w) ==
    /\ call.op = "dispatching"
    /\ w \in 1..Len(call.workers)
    /\ call.workers[w].pc = "rand_write"
    /\ call' = [call EXCEPT !.rand_state = (call.workers[w].seed + 1) % RandModulus,
                            !.workers[w].pc = "store"]
    /\ UNCHANGED <<scene_vars, rc>>

\* pixel_data[j * image_width + i] = ..., index being j * image_width + i; a
\* write past the end of the vector is recorded in outside
StorePixel(w, index) ==
    /\ call.op = "dispatching"
    /\ w \in 1..Len(call.workers)
    /\ call.workers[w].pc = "store"
    /\ index = call.workers[w].j * call.image_width + call.workers[w].i
    /\ call' = IF index \in DOMAIN call.writers
               THEN [call EXCEPT !.writers[index] = @ \cup {w},
                                 !.workers[w] = NextPixel(@, call.image_width)]
               ELSE [call EXCEPT !.outside = @ \cup {index},
                                 !.workers[w] = NextPixel(@, call.image_width)]
    /\ UNCHANGED <<scene_vars, rc>>

\* a write past the end of the vector that ends the process
StoreCrashes(w) ==
    /\ call.op = "dispatching"
    /\ w \in 1..Len(call.workers)
    /\ call.workers[w].pc = "store"
    /\ call.workers[w].j * call.image_width + call.workers[w].i \notin DOMAIN call.writers
    /\ call' = [call EXCEPT !.op = "crashed"]
    /\ UNCHANGED <<scene_vars, rc>>

\* the joins, once every thread is started and has returned
Join ==
    /\ call.op = "dispatching"
    /\ Len(call.workers) = call.num_threads
    /\ \A w \in 1..Len(call.workers) : call.workers[w].pc = "done"
    /\ call' = [call EXCEPT !.op = "rendered"]
    /\ UNCHANGED <<scene_vars, rc>>

NextRender ==
    \/ \E image_width \in 1..MaxWidth, aspect_ratio \in AspectRatios,
          num_threads \in 1..MaxThreads : RenderCall(image_width, aspect_ratio, num_threads)
    \/ Dispatch
    \/ \E w \in 1..MaxThreads : RandRead(w)
    \/ \E w \in 1..MaxThreads : RandWrite(w)
    \/ \E w \in 1..MaxThreads, index \in 0..(MaxThreads * 2 * MaxWidth * MaxWidth) :
          StorePixel(w, index)
    \/ \E w \in 1..MaxThreads : StoreCrashes(w)
    \/ Join

SpecRender == InitRender /\ [][NextRender]_vars

\* the rows [start_y, end_y) of a worker
Rows(w) == {y \in 0..(MaxThreads * 2 * MaxWidth) : w.start_y <= y /\ y < w.end_y}

\* C12: while the workers of render run, the generator a worker draws its
\* random numbers from is read and written by no other worker.
C12_RandomSourcePerWorker ==
    call.op \in {"dispatching", "rendered", "crashed"} => Cardinality(call.rand_users) <= 1

\* C18: the row ranges handed to the workers are pairwise disjoint and their
\* union is [0, image_height); no worker writes pixel_data outside
\* [0, image_width * image_height) and no two workers write the same pixel.
C18_RowsPartitioned ==
    call.op \in {"dispatching", "rendered", "crashed"} =>
        /\ call.outside = {}
        /\ \A k \in DOMAIN call.writers : Cardinality(call.writers[k]) <= 1
        /\ Len(call.workers) = call.num_threads =>
              /\ \A a, b \in 1..Len(call.workers) :
                    a # b => Rows(call.workers[a]) \cap Rows(call.workers[b]) = {}
              /\ UNION {Rows(call.workers[a]) : a \in 1..Len(call.workers)}
                    = 0..(call.image_height - 1)

----------------------------------------------------------------------------
(* Claims about the hierarchy bvh_node builds                              *)

\* the bvh_nodes of a tree
RECURSIVE NodesOf(_)
NodesOf(t) == IF t.kind = "bvh" THEN {t} \cup NodesOf(t.left) \cup NodesOf(t.right) ELSE {}

\* whether the two boxes have the same bounds on every axis
SameBox(a, b) ==
    \A axis \in 0..2 : /\ EqN(AxisInterval(a, axis).min, AxisInterval(b, axis).min)
                       /\ EqN(AxisInterval(a, axis).max, AxisInterval(b, axis).max)

\* whether box outer contains box inner on every axis
BoxContains(outer, inner) ==
    \A axis \in 0..2 : /\ Le(AxisInterval(outer, axis).min, AxisInterval(inner, axis).min)
                       /\ Le(AxisInterval(inner, axis).max, AxisInterval(outer, axis).max)

\* C13: for a non-empty list built by add, the box of the root bvh_node built
\* from it equals the list's bounding_box() on every axis, and the box of every
\* bvh_node of the tree contains the boxes of both of its children.
C13_RootBoxIsListBox ==
    pc \in {"built", "queried"} =>
        /\ SameBox(BoundingBox(bvh), list_bbox)
        /\ \A node \in NodesOf(bvh) : /\ BoxContains(node.bbox, BoundingBox(node.left))
                                      /\ BoxContains(node.bbox, BoundingBox(node.right))

\* C13's case: a hierarchy of three primitives, whose root has a bvh_node
\* child with a box smaller than the root's
C13_Witness ==
    /\ pc = "built"
    /\ Len(hittables) = 3
    /\ bvh.right.kind = "bvh"
    /\ ~SameBox(bvh.right.bbox, bvh.bbox)
    /\ SameBox(bvh.bbox, list_bbox)

\* the primitives in the leaves of a tree
RECURSIVE PrimsOf(_)
PrimsOf(t) == IF t.kind = "bvh" THEN PrimsOf(t.left) \cup PrimsOf(t.right) ELSE {t.id}

\* whether both children of a bvh_node are primitives
IsLeafNode(node) == node.left.kind = "sphere" /\ node.right.kind = "sphere"

\* the shape the constructor gives a node over a range of n primitives
NodeShape(node, n) ==
    IF n = 1 THEN IsLeafNode(node) /\ node.right = node.left
    ELSE IF n = 2 THEN IsLeafNode(node) /\ node.right # node.left
    ELSE /\ node.left.kind = "bvh" /\ node.right.kind = "bvh"
         /\ Cardinality(PrimsOf(node.left)) = n \div 2
         /\ Cardinality(PrimsOf(node.right)) = n - n \div 2
         /\ PrimsOf(node.left) \cap PrimsOf(node.right) = {}
         /\ \A a \in PrimsOf(node.left), b \in PrimsOf(node.right) :
               ~BoxCompare(b, a, LongestAxis(node.bbox))
         /\ \A c \in {node.left, node.right} :
               (IsLeafNode(c) /\ c.left # c.right) =>
                   ~BoxCompare(c.right.id, c.left.id, LongestAxis(node.bbox))

\* C14: the constructor yields a tree for every range of n >= 1 primitives,
\* and the leaves of the tree hold exactly the primitives of the range, each in
\* exactly one leaf node: n = 1 gives left = right = the primitive, n = 2 gives
\* left = the first and right = the second element, n >= 3 gives subtrees of
\* floor(n/2) and ceil(n/2) primitives split in ascending order of the boxes'
\* minimum on the longest axis of the node's box.
C14_TreeHoldsTheRange ==
    /\ (pc = "scene" /\ Len(hittables) >= 1) => BvhTrees(hittables) # {}
    /\ pc \in {"built", "queried"} =>
          /\ PrimsOf(bvh) = {hittables[i] : i \in Members}
          /\ \A i \in Members :
                Cardinality({node \in NodesOf(bvh) :
                                /\ IsLeafNode(node)
                                /\ hittables[i] \in {node.left.id, node.right.id}}) = 1
          /\ Len(hittables) = 2 =>
                bvh.left = Leaf(hittables[1]) /\ bvh.right = Leaf(hittables[2])
          /\ \A node \in NodesOf(bvh) : NodeShape(node, Cardinality(PrimsOf(node)))

\* C14's case: a range of three primitives that std::sort had to reorder; the
\* left subtree holds one primitive twice and the right one holds two
C14_Witness ==
    /\ pc = "built"
    /\ Len(hittables) = 3
    /\ bvh.left.kind = "bvh" /\ bvh.left.left = bvh.left.right
    /\ bvh.left.left # Leaf(hittables[1])
    /\ bvh.right.kind = "bvh" /\ bvh.right.left # bvh.right.right

----------------------------------------------------------------------------
(* Claims about the root sphere::hit selects                               *)

\* whether x lies strictly between the bounds of the interval
StrictlyInside(rt, x) == Lt(rt.min, x) /\ Lt(x, rt.max)

\* what sphere::hit is to report for the roots q.root1 <= q.root2: h is what it
\* returned and left in rec
ReportsRoot(h, rt, q) ==
    /\ Le(q.root1, q.root2)
    /\ IF StrictlyInside(rt, q.root1) THEN h.hit /\ EqN(h.rec.t, q.root1)
       ELSE IF StrictlyInside(rt, q.root2) THEN h.hit /\ EqN(h.rec.t, q.root2)
       ELSE ~h.hit

\* C16: when the discriminant is not negative, sphere::hit reports the nearer
\* root if it lies strictly inside the interval, else the farther root if that
\* lies strictly inside the interval, else no hit.
C16_NearerRootPreferred ==
    pc = "queried" =>
        \A i \in Members :
            SphereRoots(Spheres[hittables[i]], r).discriminant >= 0 =>
                ReportsRoot(out.member[i], ray_t, SphereRoots(Spheres[hittables[i]], r))

\* C16's case: both roots of a member differ and lie inside the interval, and
\* the nearer one is reported
C16_Witness ==
    /\ pc = "queried"
    /\ \E i \in Members :
          /\ SphereRoots(Spheres[hittables[i]], r).discriminant > 0
          /\ StrictlyInside(ray_t, SphereRoots(Spheres[hittables[i]], r).root1)
          /\ StrictlyInside(ray_t, SphereRoots(Spheres[hittables[i]], r).root2)
          /\ out.member[i].hit
          /\ EqN(out.member[i].rec.t, SphereRoots(Spheres[hittables[i]], r).root1)

----------------------------------------------------------------------------
(* Claims about the caller's hit_record                                    *)

\* C19: whenever hit returns false, for a sphere, a list or a hierarchy, the
\* caller's hit_record is exactly what it was before the call.
C19_MissLeavesRecord ==
    pc = "queried" =>
        /\ ~out.list.hit => out.list.rec = CallerRec
        /\ ~out.bvh.hit => out.bvh.rec = CallerRec
        /\ \A i \in Members : ~out.member[i].hit => out.member[i].rec = CallerRec

\* C19's case: the ray enters the box of a hierarchy of three primitives and
\* meets the surface of a member outside the interval only, and the list, the
\* hierarchy and every member report a miss
C19_Witness ==
    /\ pc = "queried"
    /\ Len(hittables) = 3
    /\ AabbHit(bvh.bbox, r, ray_t)
    /\ ~out.list.hit /\ ~out.bvh.hit
    /\ \E i \in Members : SphereRoots(Spheres[hittables[i]], r).discriminant >= 0
    /\ out.bvh.rec = CallerRec

----------------------------------------------------------------------------
(* A hittable_list under add and clear                                     *)

\* hittable_list::clear: the vector is emptied; bbox is not assigned
Clear ==
    /\ pc = "scene"
    /\ hittables' = <<>>
    /\ UNCHANGED <<list_bbox, bvh, pc, r, ray_t, out, call, rc>>

NextList ==
    \/ \E id \in SphereIds : Add(id)
    \/ Clear

SpecList == Init /\ [][NextList]_vars

\* C17: after any sequence of add and clear, bounding_box() is the envelope of
\* the boxes of exactly the objects now in the list; right after clear() it is
\* the empty box.
C17_BoxOfCurrentMembers ==
    pc = "scene" => SameBox(list_bbox, RangeBox(hittables, Len(hittables)))

----------------------------------------------------------------------------
(* Termination of ray_color                                                *)

\* ray_color is sequential code run by one thread: a call in progress takes
\* its next step.  The condition on WorldHit is WF_vars(WorldHit) with
\* ENABLED <<WorldHit>>_vars written out as rc.pc = "world_hit".
SpecColorFair ==
    /\ SpecColor
    /\ WF_vars(DepthTest)
    /\ []<>(rc.pc # "world_hit") \/ []<><<WorldHit>>_vars
    /\ WF_vars(ScatterAndRecurse)
    /\ WF_vars(ScatterAbsorbs)
    /\ WF_vars(ReturnToCaller)
    /\ WF_vars(ReturnToCamera)

\* the calls of scatter a top-level call has made so far
ScatterCalls == {i \in 1..Len(rc.path) : rc.path[i].outcome \in {"scattered", "absorbed"}}

\* the depth of each nested call is one less than its caller's, none has
\* wrapped around, and the nesting and the scatter calls stay within the depth
\* the top-level call was given
DepthBounded ==
    rc.pc # "idle" =>
        /\ Len(rc.stack) <= rc.depth + 1
        /\ \A i \in 1..Len(rc.stack) : rc.stack[i].depth = rc.depth - (i - 1)
        /\ Cardinality(ScatterCalls) <= rc.depth

\* C15: ray_color always terminates: the depth argument decreases by one on
\* each recursive call and never wraps around in its 16 bits, so the nesting of
\* calls never exceeds max_depth + 1 and at most max_depth scatter calls are
\* made, for every scene and every sequence of scatter outcomes.
C15_RayColorTerminates ==
    /\ []DepthBounded
    /\ (rc.pc # "idle") ~> (rc.pc = "done")

\* C15's case: a call given the largest depth has returned after every level
\* scattered, the innermost call having found its depth exhausted
C15_Witness ==
    /\ rc.pc = "done"
    /\ rc.depth = MaxDepth
    /\ Len(rc.path) = MaxDepth + 1
    /\ Cardinality(ScatterCalls) = MaxDepth
    /\ rc.path[Len(rc.path)].outcome = "exhausted"

====
